---- MODULE Spec2Model ----
(***************************************************************************)
(* A model of ssht_sampling.c: the MW toroidal weight, the Driscoll-Healy  *)
(* weight, the Gauss-Legendre nodes and weights (gauleg), the MW angle     *)
(* mappings and the (el, m) <-> ind harmonic index relations.              *)
(*                                                                         *)
(* C int is the 32-bit two's complement int: an int expression is computed *)
(* with wrap-around and, when the exact result does not fit, the call has  *)
(* undefined behaviour: it either returns what the wrapped arithmetic      *)
(* gives or traps.  Doubles that the code only combines by + - * / of      *)
(* integers and pi are exact rationals; the double -> int conversion of    *)
(* ind2elm rounds to DBL_MANT_DIG significant bits before it truncates.    *)
(* gauleg and ssht_sampling_gl_thetas_weights compute in IEEE binary64:    *)
(* every + - * / rounds to the nearest double, halves to even, and cos and *)
(* acos return the double nearest the real value.                          *)
(***************************************************************************)
EXTENDS Integers, Sequences, FiniteSets, TLC

VARIABLES pc, fn, args, out, prev, i, j, z, z1, p1, p2, pp, iter, x, w, tt, bracket

vars == <<pc, fn, args, out, prev, i, j, z, z1, p1, p2, pp, iter, x, w, tt, bracket>>

\* The locals and the two caller buffers of gauleg; iter counts the passes of
\* the do-while loop for the current root.  tt is the loop variable t of
\* ssht_sampling_gl_thetas_weights and bracket what the acos under way has
\* found of its angle.
gl == <<i, j, z, z1, p1, p2, pp, iter, x, w, tt, bracket>>

\* ------------------------------------------------------------------ bounds

\* Largest band-limit L drawn for a call.
MaxL == 4

\* Largest |p| drawn for ssht_sampling_weight_mw besides the boundary values.
MaxP == 5

\* Largest point count n drawn for gauleg.
MaxN == 5

\* A large point count n, drawn for gauleg on [-1, 1] besides the small ones.
BigN == 57

\* Largest band-limit L drawn for ssht_sampling_gl_thetas_weights.
MaxThetaL == 2

\* ------------------------------------------------------------- C int (32 bit)

IntMax == (2^30 - 1) + 2^30

IntMin == (-IntMax) - 1

Abs(a) == IF a >= 0 THEN a ELSE -a

\* a + b does not fit an int.
AddOvf(a, b) == \/ (b > 0 /\ a > IntMax - b)
                \/ (b < 0 /\ a < IntMin - b)

\* a + b modulo 2^32, as a signed int.
WAdd(a, b) == IF b > 0 /\ a > IntMax - b THEN (a + IntMin) + (b + IntMin)
              ELSE IF b < 0 /\ a < IntMin - b THEN (a - IntMin) + (b - IntMin)
              ELSE a + b

WNeg(a) == IF a = IntMin THEN IntMin ELSE -a

SubOvf(a, b) == IF b = IntMin THEN a >= 0 ELSE AddOvf(a, -b)

WSub(a, b) == WAdd(a, WNeg(b))

\* a * k modulo 2^32 for k >= 0, by doubling.
RECURSIVE WMulNat(_, _)
WMulNat(a, k) == IF k = 0 \/ a = 0 THEN 0
                 ELSE LET h == WMulNat(WAdd(a, a), k \div 2)
                      IN  IF k % 2 = 1 THEN WAdd(h, a) ELSE h

WMul(a, b) == IF b >= 0 THEN WMulNat(a, b)
              ELSE IF b = IntMin THEN (IF a % 2 = 1 THEN IntMin ELSE 0)
              ELSE WNeg(WMulNat(a, -b))

\* a * b does not fit an int.
MulOvf(a, b) ==
    IF a = 0 \/ b = 0 THEN FALSE
    ELSE IF a = IntMin THEN b # 1
    ELSE IF b = IntMin THEN a # 1
    ELSE IF (a > 0) = (b > 0) THEN Abs(a) > IntMax \div Abs(b)
    ELSE /\ Abs(a) > IntMax \div Abs(b)
         /\ ~ (/\ Abs(a) = (IntMax \div Abs(b)) + 1
               /\ IntMax % Abs(b) = Abs(b) - 1)

\* ------------------------------------------------------------- call outcomes

\* What a call leaves: the values it returned or stored through its pointers,
\* or a trap.  The code has no other way to end a call: no function returns
\* or stores an error code.
Ret(v) == [kind |-> "ret", val |-> v]

Trap == [kind |-> "trap", val |-> << >>]

NoOut == [kind |-> "none", val |-> << >>]

NoCall == [fn |-> "none", args |-> << >>, out |-> NoOut]

\* The outcomes of a call that computed v, with undefined behaviour on the
\* way when ub holds.
Outcomes(v, ub) == {Ret(v)} \cup (IF ub THEN {Trap} ELSE {})

\* ------------------------------------------------------------------ doubles

\* A real the code computes by + - * / from integers is the fraction
\* <<num, den>>; an angle is such a fraction of pi.  den = 0 is what a
\* division by zero leaves: <<1, 0>> and <<-1, 0>> are the infinities and
\* <<0, 0>> is NaN.
RECURSIVE Gcd(_, _)
Gcd(a, b) == IF b = 0 THEN a ELSE Gcd(b, a % b)

Sgn(a) == IF a > 0 THEN 1 ELSE IF a < 0 THEN -1 ELSE 0

NaN == <<0, 0>>

RatNorm(q) == IF q[2] = 0 THEN <<Sgn(q[1]), 0>>
              ELSE LET g == Gcd(Abs(q[1]), Abs(q[2]))
                   IN  <<Sgn(q[2]) * (q[1] \div g), Abs(q[2]) \div g>>

RatAdd(a, b) == IF a[2] = 0 \/ b[2] = 0
                THEN (IF a[2] # 0 THEN b
                      ELSE IF b[2] # 0 \/ a = b THEN a ELSE NaN)
                ELSE RatNorm(<<a[1] * b[2] + b[1] * a[2], a[2] * b[2]>>)

RatMul(a, b) == IF (a[2] = 0 /\ b[1] = 0) \/ (b[2] = 0 /\ a[1] = 0) THEN NaN
                ELSE RatNorm(<<a[1] * b[1], a[2] * b[2]>>)

RatDiv(a, b) == IF a = NaN \/ b = NaN \/ (a[2] = 0 /\ b[2] = 0) THEN NaN
                ELSE RatNorm(<<a[1] * b[2], a[2] * b[1]>>)

RatLess(a, b) == a[1] * b[2] < b[1] * a[2]

\* floor(log2(a)) for a >= 1.
RECURSIVE Log2(_)
Log2(a) == IF a <= 1 THEN 0 ELSE 1 + Log2(a \div 2)

\* Largest r in lo..hi with r * r <= a (lo * lo <= a).
RECURSIVE ISqrtIn(_, _, _)
ISqrtIn(a, lo, hi) == IF lo = hi THEN lo
                      ELSE LET mid == (lo + hi + 1) \div 2
                           IN  IF mid <= a \div mid THEN ISqrtIn(a, mid, hi)
                               ELSE ISqrtIn(a, lo, mid - 1)

\* floor(sqrt(IntMax)): the largest int whose square is an int.
SqrtIntMax == 46340

\* The integer part of the real square root of the int a >= 0.
ISqrt(a) == ISqrtIn(a, 0, SqrtIntMax)

\* Significant bits of a double (DBL_MANT_DIG).
DblMantDig == 53

\* sqrt() is correctly rounded: the double nearest to the real root.  For a
\* that is not a square the real root lies strictly between r = ISqrt(a) and
\* r + 1, and the nearest number with mant significant bits is r + 1 itself
\* exactly when the root is within half a unit in the last place of it:
\* d * 2^(mant - Log2(r)) <= 2 * (r + 1) - 1, where d = (r + 1)^2 - a.
SqrtRoundsUp(a, mant) ==
    LET r == ISqrt(a)
        d == (2 * r + 1) - (a - r * r)
        q == (2 * r + 1) \div d
    IN  /\ r * r # a
        /\ q >= 1
        /\ mant - Log2(r) <= Log2(q)

\* (int) sqrt(a) for an int a >= 0: the rounded root, truncated.
SqrtToInt(a, mant) == IF SqrtRoundsUp(a, mant) THEN ISqrt(a) + 1 ELSE ISqrt(a)

\* (int) NaN is undefined: the conversion instruction of the target decides
\* (cvttsd2si leaves INT_MIN, fcvtzs leaves 0).
NaNToInt == {IntMin, 0}

\* ------------------------------------------------------- the scalar functions

\* ssht_sampling_weight_mw(p): the complex weight re + I * im * pi / 2 as
\* <<re num, re den, im>>.  p * p is an int product, converted to double
\* only afterwards.
ssht_sampling_weight_mw(p) ==
    IF p = 1 THEN Outcomes(<<0, 1, 1>>, FALSE)
    ELSE IF p = -1 THEN Outcomes(<<0, 1, -1>>, FALSE)
    ELSE IF p % 2 = 0
         THEN Outcomes(<<2, 1 - WMul(p, p), 0>>, MulOvf(p, p))
         ELSE Outcomes(<<0, 1, 0>>, FALSE)

\* sin(k * pi / 2).
SinQuarter(k) == CASE k % 4 = 0 -> 0
                   [] k % 4 = 1 -> 1
                   [] k % 4 = 2 -> 0
                   [] k % 4 = 3 -> -1

\* The sum the loop of ssht_sampling_weight_dh leaves after k = 0 .. K - 1,
\* for theta_t = q * pi / 2.
RECURSIVE DhSum(_, _)
DhSum(q, K) == IF K <= 0 THEN <<0, 1>>
               ELSE RatAdd(DhSum(q, K - 1),
                           <<SinQuarter((2 * (K - 1) + 1) * q), 2 * (K - 1) + 1>>)

\* ssht_sampling_weight_dh(theta_t, L) for theta_t = q * pi / 2.
ssht_sampling_weight_dh(q, L) ==
    Outcomes(RatMul(DhSum(q, L), RatMul(RatDiv(<<2, 1>>, <<L, 1>>),
                                        <<SinQuarter(q), 1>>)), FALSE)

\* ssht_sampling_mw_t2theta with the sample count 2L in place of 2L - 1.
mw_t2theta_EvenCount(t, L) == Outcomes(<<2 * t + 1, 2 * L>>, FALSE)

\* ssht_sampling_mw_t2theta with the check of L that the specification asks
\* for.
mw_t2theta_Checked(t, L) ==
    IF L <= 0 THEN {[kind |-> "InvalidBandlimit", val |-> << >>]}
    ELSE Outcomes(<<2 * t + 1, 2 * L - 1>>, FALSE)

\* ssht_sampling_mw_t2theta(t, L), as a fraction of pi.
ssht_sampling_mw_t2theta(t, L) == Outcomes(<<2 * t + 1, 2 * L - 1>>, FALSE)

\* ssht_sampling_mw_p2phi(p, L), as a fraction of pi.
ssht_sampling_mw_p2phi(p, L) == Outcomes(<<2 * p, 2 * L - 1>>, FALSE)

\* ssht_sampling_elm2ind without the el term of the index.
elm2ind_NoDegree(el, m) ==
    LET sq == WMul(el, el)
    IN  Outcomes(<<WAdd(sq, m)>>, MulOvf(el, el) \/ AddOvf(sq, m))

\* ssht_sampling_elm2ind(&ind, el, m): *ind.
ssht_sampling_elm2ind(el, m) ==
    LET sq  == WMul(el, el)
        sum == WAdd(sq, el)
    IN  Outcomes(<<WAdd(sum, m)>>,
                 MulOvf(el, el) \/ AddOvf(sq, el) \/ AddOvf(sum, m))

\* *m of ssht_sampling_ind2elm once *el holds e.
Ind2M(ind, e) == WSub(WSub(ind, WMul(e, e)), e)

Ind2MOvf(ind, e) == \/ MulOvf(e, e)
                    \/ SubOvf(ind, WMul(e, e))
                    \/ SubOvf(WSub(ind, WMul(e, e)), e)

\* ssht_sampling_ind2elm with the root taken in single precision (sqrtf,
\* FLT_MANT_DIG = 24 significant bits).
ind2elm_sqrtf(ind) ==
    IF ind >= 0
    THEN LET e == SqrtToInt(ind, 24)
         IN  Outcomes(<<e, Ind2M(ind, e)>>, Ind2MOvf(ind, e))
    ELSE {Ret(<<e, Ind2M(ind, e)>>) : e \in NaNToInt} \cup {Trap}

\* ssht_sampling_ind2elm(&el, &m, ind): <<*el, *m>>.
ssht_sampling_ind2elm(ind) ==
    IF ind >= 0
    THEN LET e == SqrtToInt(ind, DblMantDig)
         IN  Outcomes(<<e, Ind2M(ind, e)>>, Ind2MOvf(ind, e))
    ELSE {Ret(<<e, Ind2M(ind, e)>>) : e \in NaNToInt} \cup {Trap}

\* ----------------------------------------------------------- long naturals

\* The significand of a double has 53 bits and a product of two has 106,
\* more than an integer of the model holds: a long natural is the
\* sequence of its digits in base 2^LimbBits, lowest first, with no zero
\* at the top (<< >> is 0).
LimbBits == 15

Base == 2^LimbBits

Limb(a, k) == IF 1 <= k /\ k <= Len(a) THEN a[k] ELSE 0

\* The index of the highest digit of a that is not 0, or 0.
TopDigit(a) ==
    IF \A k \in 1 .. Len(a) : a[k] = 0 THEN 0
    ELSE CHOOSE k \in 1 .. Len(a) :
             a[k] # 0 /\ \A t \in (k + 1) .. Len(a) : a[t] = 0

\* The digits of the sequence s up to the highest that is not 0.
TrimTo(s) == SubSeq(s, 1, TopDigit(s))

\* The digits of a, listed, without the zeros at the top.
BTrim(a) == TrimTo(SubSeq(a, 1, Len(a)))

\* The long natural of an int k >= 0.
BNat(k) == BTrim(<<k % Base, (k \div Base) % Base, k \div (Base * Base)>>)

MaxLen(a, b) == IF Len(a) >= Len(b) THEN Len(a) ELSE Len(b)

\* The sum of the digits below k of a and b carries into digit k.
CarryIn(a, b, k) ==
    \E n \in 1 .. (k - 1) :
        /\ Limb(a, n) + Limb(b, n) >= Base
        /\ \A t \in (n + 1) .. (k - 1) : Limb(a, t) + Limb(b, t) = Base - 1

BAdd(a, b) ==
    IF a = << >> THEN b
    ELSE IF b = << >> THEN a
    ELSE BTrim([k \in 1 .. (MaxLen(a, b) + 1) |->
                   (Limb(a, k) + Limb(b, k)
                       + (IF CarryIn(a, b, k) THEN 1 ELSE 0)) % Base])

\* The digits below k of a are less than those of b.
BorrowIn(a, b, k) ==
    \E n \in 1 .. (k - 1) :
        /\ Limb(a, n) < Limb(b, n)
        /\ \A t \in (n + 1) .. (k - 1) : Limb(a, t) = Limb(b, t)

\* a - b for a >= b.
BSub(a, b) ==
    IF a = << >> \/ b = << >> THEN a
    ELSE BTrim([k \in 1 .. Len(a) |->
                   (a[k] - Limb(b, k) - (IF BorrowIn(a, b, k) THEN 1 ELSE 0))
                       % Base])

\* a < b.
BLess(a, b) == IF b = << >> THEN FALSE
               ELSE IF a = << >> THEN TRUE
               ELSE BorrowIn(a, b, MaxLen(a, b) + 1)

\* a * Base^n.
BShlLimbs(a, n) == IF a = << >> THEN a ELSE [k \in 1 .. n |-> 0] \o a

\* floor(a / Base^n).
BShrLimbs(a, n) == IF a = << >> \/ n >= Len(a) THEN << >>
                   ELSE SubSeq(a, n + 1, Len(a))

\* The sum of s[lo .. hi] for a sequence s of integers, by halves.
RECURSIVE SumOver(_, _, _)
SumOver(s, lo, hi) ==
    IF lo > hi THEN 0
    ELSE IF lo = hi THEN s[lo]
    ELSE SumOver(s, lo, (lo + hi) \div 2) + SumOver(s, (lo + hi) \div 2 + 1, hi)

\* What the products of the digits of a with digits of b add to digit k of
\* a * b: the low halves of those that fall on it and the high halves of
\* those that fall on the digit below.
Column(a, b, k) ==
    SumOver(SubSeq([n \in 1 .. Len(a) |->
                       ((a[n] * Limb(b, k + 1 - n)) % Base)
                           + ((a[n] * Limb(b, k - n)) \div Base)],
                   1, Len(a)),
            1, Len(a))

\* The number whose columns, each less than Base * Base, are cols: the sum
\* of their low and of their high halves.
ColumnSum(cols) ==
    BAdd(BTrim([k \in 1 .. Len(cols) |-> cols[k] % Base]),
         BTrim([k \in 1 .. (Len(cols) + 1) |->
                   IF k = 1 THEN 0 ELSE cols[k - 1] \div Base]))

\* a * b.
BMul(a, b) ==
    IF a = << >> \/ b = << >> THEN << >>
    ELSE ColumnSum(SubSeq([k \in 1 .. (Len(a) + Len(b)) |-> Column(a, b, k)],
                          1, Len(a) + Len(b)))

\* a * d for a digit d.
BMulDigit(a, d) == IF d = 0 THEN << >> ELSE BMul(a, <<d>>)

\* b^n modulo d for 1 <= d < Base, by squaring.
RECURSIVE PowMod(_, _, _)
PowMod(b, n, d) ==
    IF n = 0 THEN 1 % d
    ELSE IF n % 2 = 1 THEN ((b % d) * PowMod(b, n - 1, d)) % d
    ELSE (PowMod(b, n \div 2, d) * PowMod(b, n \div 2, d)) % d

\* The digits k and above of a, modulo d, for 1 <= d < Base; pw[n] is
\* Base^(n-1) modulo d.
RemAbove(a, d, pw, k) ==
    SumOver(SubSeq([n \in 1 .. Len(a) |->
                       IF n < k THEN 0 ELSE ((a[n] % d) * pw[n - k + 1]) % d],
                   1, Len(a)),
            1, Len(a)) % d

\* <<floor(a / d), a mod d>> for 1 <= d < Base and the powers pw of Base
\* modulo d.
DivDigitBy(a, d, pw) ==
    <<BTrim([k \in 1 .. Len(a) |->
                (RemAbove(a, d, pw, k + 1) * Base + a[k]) \div d]),
      RemAbove(a, d, pw, 1)>>

\* <<floor(a / d), a mod d>> for 1 <= d < Base.
BDivDigit(a, d) ==
    IF a = << >> THEN << << >>, 0 >>
    ELSE DivDigitBy(a, d, SubSeq([n \in 1 .. Len(a) |-> PowMod(Base, n - 1, d)],
                                 1, Len(a)))

\* a * 2^n.
BShl(a, n) ==
    IF a = << >> \/ n = 0 THEN a
    ELSE BShlLimbs(BTrim([k \in 1 .. (Len(a) + 1) |->
                             ((Limb(a, k) * 2^(n % LimbBits)) % Base)
                                 + ((Limb(a, k - 1) * 2^(n % LimbBits))
                                        \div Base)]),
                   n \div LimbBits)

\* floor(a / 2^n).
BShr(a, n) ==
    IF a = << >> \/ n = 0 THEN a
    ELSE BTrim([k \in 1 .. Len(a) |->
                   (Limb(a, k + (n \div LimbBits)) \div 2^(n % LimbBits))
                       + (Limb(a, k + (n \div LimbBits) + 1)
                              % 2^(n % LimbBits))
                             * 2^(LimbBits - (n % LimbBits))])

\* The number of bits of a digit k.
BitLen(k) == CHOOSE n \in 0 .. LimbBits : k < 2^n /\ (n = 0 \/ k >= 2^(n - 1))

BBits(a) == IF a = << >> THEN 0
            ELSE (Len(a) - 1) * LimbBits + BitLen(a[Len(a)])

\* Bit n of a (bit 0 is the lowest).
BBit(a, n) == (Limb(a, (n \div LimbBits) + 1) \div 2^(n % LimbBits)) % 2

\* One of the n lowest bits of a is set.
BLowSet(a, n) ==
    \/ \E k \in 1 .. (n \div LimbBits) : Limb(a, k) # 0
    \/ Limb(a, (n \div LimbBits) + 1) % 2^(n % LimbBits) # 0

\* floor(r / d) for r < d * Base and d of n digits with the top one at least
\* Base / 2: the quotient of the two leading digits of r by the leading one
\* of d is this digit or up to 2 more.
QuotDigitFrom(r, d, est) ==
    IF ~ BLess(r, BMulDigit(d, est)) THEN est
    ELSE IF ~ BLess(r, BMulDigit(d, est - 1)) THEN est - 1
    ELSE est - 2

\* The quotient of the two leading digits of r by the leading one of d.
QuotEstimate(r, d) ==
    (Limb(r, Len(d) + 1) * Base + Limb(r, Len(d))) \div d[Len(d)]

QuotDigit(r, d) ==
    QuotDigitFrom(r, d, IF QuotEstimate(r, d) >= Base THEN Base - 1
                        ELSE QuotEstimate(r, d))

\* <<q + t, r - t * d>> for the digit t of a quotient.
DivStepBy(q, r, d, t) == <<BAdd(q, BNat(t)), BSub(r, BMulDigit(d, t))>>

\* One step of a long division by d: <<q, r>> with r < d becomes
\* <<q * Base + t, r * Base - t * d>> for the next digit t of the quotient.
DivStep(qr, d) ==
    IF qr[2] = << >> THEN <<BShlLimbs(qr[1], 1), << >> >>
    ELSE DivStepBy(BShlLimbs(qr[1], 1), BShlLimbs(qr[2], 1), d,
                   QuotDigit(BShlLimbs(qr[2], 1), d))

\* ----------------------------------------------------- double arithmetic

\* A double other than 0 is (-1)^sign * man * 2^exp with a significand man
\* of exactly DblMantDig bits; the range of the exponent is never left by the
\* values gauleg computes, and the sign of a zero is not kept.
FZero == [sign |-> 0, man |-> << >>, exp |-> 0]

\* The double nearest (-1)^s * (m + f) * 2^e, halves to the even significand,
\* where 0 < f < 1 when sticky holds and f = 0 otherwise.
FRoundCarry(s, q, e) ==
    IF BBits(q) > DblMantDig THEN [sign |-> s, man |-> BShr(q, 1), exp |-> e + 1]
    ELSE [sign |-> s, man |-> q, exp |-> e]

\* The same for a significand m of sh bits too many.
FRoundCut(s, m, e, sticky, sh) ==
    FRoundCarry(s,
                IF /\ BBit(m, sh - 1) = 1
                   /\ (sticky \/ BLowSet(m, sh - 1) \/ BBit(m, sh) = 1)
                THEN BAdd(BShr(m, sh), <<1>>) ELSE BShr(m, sh),
                e + sh)

FRound(s, m, e, sticky) ==
    IF m = << >> THEN FZero
    ELSE IF BBits(m) <= DblMantDig
    THEN [sign |-> s, man |-> BShl(m, DblMantDig - BBits(m)),
          exp |-> e - (DblMantDig - BBits(m))]
    ELSE FRoundCut(s, m, e, sticky, BBits(m) - DblMantDig)

\* (double) k for an int k.
FInt(k) == FRound(IF k < 0 THEN 1 ELSE 0, BNat(IF k < 0 THEN -k ELSE k), 0, FALSE)

FNeg(a) == IF a = FZero THEN a ELSE [a EXCEPT !.sign = 1 - a.sign]

FAbs(a) == [a EXCEPT !.sign = 0]

FMul(a, b) ==
    IF a = FZero \/ b = FZero THEN FZero
    ELSE FRound((a.sign + b.sign) % 2, BMul(a.man, b.man), a.exp + b.exp, FALSE)

\* Digits of the quotient that a long division takes beyond the leading
\* one.
DivSteps == 4

DivBits == DivSteps * LimbBits

\* <<floor(m * 2^DivBits / d), the division left a remainder>> for m and d
\* with the top digit of d full: the quotient is taken a digit at a time.
Quotient(qr) == <<qr[1], qr[2] # << >> >>

ManDivFull(m, d) ==
    Quotient(DivStep(DivStep(DivStep(DivStep(
        IF BLess(m, d) THEN << << >>, m >> ELSE << <<1>>, BSub(m, d) >>,
        d), d), d), d))

\* The same for two significands: both are shifted so that the top digit
\* of d is full.
ManDivBy(m, d, sh) == ManDivFull(BShl(m, sh), BShl(d, sh))

ManDiv(m, d) == ManDivBy(m, d, Len(d) * LimbBits - BBits(d))

\* a / b for b # 0.
FDivBy(a, b, qr) ==
    FRound((a.sign + b.sign) % 2, qr[1], a.exp - b.exp - DivBits, qr[2])

FDiv(a, b) == IF a = FZero THEN FZero ELSE FDivBy(a, b, ManDiv(a.man, b.man))

\* Bits by which the larger operand of a sum is shifted at most; what the
\* smaller one has below them is kept as a sticky bit.
AlignBits == 56

\* (-1)^sa * am * 2^e + (-1)^sb * (bm + f) * 2^e, where 0 < f < 1 when st
\* holds and f = 0 otherwise, and am >= bm + 1 when st holds.
FAddAligned(sa, am, sb, bm, e, st) ==
    IF sa = sb THEN FRound(sa, BAdd(am, bm), e, st)
    ELSE IF st THEN FRound(sa, BSub(BSub(am, bm), <<1>>), e, TRUE)
    ELSE IF am = bm THEN FZero
    ELSE IF BLess(bm, am) THEN FRound(sa, BSub(am, bm), e, FALSE)
    ELSE FRound(sb, BSub(bm, am), e, FALSE)

\* a + b for a.exp = b.exp + d, both other than 0, with b shifted by sh.
FAddShifted(a, b, d, sh) ==
    FAddAligned(a.sign, BShl(a.man, d - sh), b.sign, BShr(b.man, sh),
                b.exp + sh, BLowSet(b.man, sh))

\* a + b for a.exp >= b.exp, both other than 0.
FAddOrdered(a, b) ==
    FAddShifted(a, b, a.exp - b.exp,
                IF a.exp - b.exp <= AlignBits THEN 0
                ELSE a.exp - b.exp - AlignBits)

FAdd(a, b) == IF a = FZero THEN b
              ELSE IF b = FZero THEN a
              ELSE IF a.exp >= b.exp THEN FAddOrdered(a, b)
              ELSE FAddOrdered(b, a)

FSub(a, b) == FAdd(a, FNeg(b))

\* a > b.
FGreater(a, b) == FSub(a, b) # FZero /\ FSub(a, b).sign = 0

\* ------------------------------------------------------------- cos and acos

\* cos and acos work on numbers of FxLimbs digits after the point, far more
\* than a double holds, and round the result to the nearest double.
FxLimbs == 8

FxBits == FxLimbs * LimbBits

FxOne == BShlLimbs(<<1>>, FxLimbs)

\* pi, to FxBits bits.
FxPi == <<28787, 23558, 26152, 6296, 12429, 4276, 23202, 4639, 3>>

\* The states of the cosine series: tuples of long naturals.
CosStates == Seq(Seq(Nat))

\* One more term of the cosine series: st = <<the square of the angle, the
\* last term taken, the sum of the terms x^(2k) / (2k)! that are added, the
\* sum of those that are subtracted, <<the index k of the next term>> >>.
\* Once the terms have fallen to 0 the sums stay.
CosTerm(st, k, u) ==
    <<st[1], u, IF k % 2 = 0 THEN BAdd(st[3], u) ELSE st[3],
                IF k % 2 = 1 THEN BAdd(st[4], u) ELSE st[4], <<k + 1>> >>

CosStep[st \in CosStates] ==
    IF st[2] = << >> THEN st
    ELSE CosTerm(st, st[5][1],
                 BDivDigit(BShrLimbs(BMul(st[2], st[1]), FxLimbs),
                           (2 * st[5][1] - 1) * (2 * st[5][1]))[1])

\* Five more terms.
CosFive[st \in CosStates] == CosStep[CosStep[CosStep[CosStep[CosStep[st]]]]]

\* Forty more terms: below pi + 1 the terms have fallen to 0 before that.
CosForty[st \in CosStates] ==
    CosFive[CosFive[CosFive[CosFive[CosFive[CosFive[CosFive[CosFive[st]]]]]]]]

\* <<added, subtracted>> for the angle a, a long natural of units 2^-FxBits.
FxCos(a) ==
    SubSeq(CosForty[<<BShrLimbs(BMul(a, a), FxLimbs), FxOne, FxOne, << >>,
                      <<1>> >>], 3, 4)

\* |a| in units of 2^-FxBits, cut off.
FxAbs(a) == IF a = FZero THEN << >>
            ELSE IF FxBits + a.exp >= 0 THEN BShl(a.man, FxBits + a.exp)
            ELSE BShr(a.man, -(FxBits + a.exp))

\* The double nearest added - subtracted.
FxRound(pn) ==
    IF BLess(pn[1], pn[2]) THEN FRound(1, BSub(pn[2], pn[1]), -FxBits, TRUE)
    ELSE FRound(0, BSub(pn[1], pn[2]), -FxBits, TRUE)

\* cos(a) for a double a.
FCos(a) == FxRound(FxCos(FxAbs(a)))

\* Digits below which the angles tried by acos are 0.
StepLimbs == 3

\* cos(t) >= c for the angle t, of units Base^StepLimbs * 2^-FxBits.
CosAtLeast(t, c) ==
    \E pn \in {FxCos(BShlLimbs(t, StepLimbs))} :
        IF c.sign = 0 THEN ~ BLess(pn[1], BAdd(pn[2], FxAbs(c)))
        ELSE ~ BLess(BAdd(pn[1], FxAbs(c)), pn[2])

\* acos(c) is found by bisection for the largest angle t with cos(t) >= c:
\* lh = <<lo, hi>> with cos(lo) >= c > cos(hi).  The first bracket is
\* <<0, above pi>>.
ACosFirst == << << >>, BAdd(BShrLimbs(FxPi, StepLimbs), <<1>>) >>

\* The bisection has ended: hi = lo + 1.
ACosDone(lh) == BLess(BSub(lh[2], lh[1]), <<2>>)

\* One step of the bisection: the half of the bracket that keeps
\* cos(lo) >= c > cos(hi) (the middle is bound as a value).
ACosStep(c, lh) ==
    CHOOSE r \in {IF CosAtLeast(mid, c) THEN <<mid, lh[2]>>
                                         ELSE <<lh[1], mid>> :
                  mid \in {BShr(BAdd(lh[1], lh[2]), 1)}} : TRUE

\* The double nearest the angle found.
ACosRound(lh) == FRound(0, lh[1], (StepLimbs - FxLimbs) * LimbBits, TRUE)

\* ------------------------------------------------------------------- inputs

\* Band-limits, degrees, orders and indices next to the limits of int, where
\* el * el and L * L stop fitting.
EdgeInts == {SqrtIntMax - 1, SqrtIntMax, SqrtIntMax + 1}

Ls == -1 .. MaxL

Els == (-1 .. MaxL - 1) \cup EdgeInts

Ms == (-MaxL .. MaxL) \cup EdgeInts \cup {-k : k \in EdgeInts}

Inds == (-2 .. MaxL * MaxL) \cup {IntMax, IntMin}
          \cup UNION {{k * k - 1, k * k, k * k + k} : k \in {SqrtIntMax - 1, SqrtIntMax}}

Ps == (-MaxP .. MaxP) \cup {SqrtIntMax, SqrtIntMax + 1, SqrtIntMax + 2,
                            -(SqrtIntMax + 2), 2^16}

Ts == -1 .. 2 * MaxL

Quarters == 0 .. 3

ThetaLs == -1 .. MaxThetaL

\* ------------------------------------------------------------------ actions

Init == /\ pc = "idle"
        /\ fn = "none"
        /\ args = << >>
        /\ out = NoOut
        /\ prev = NoCall
        /\ i = 0
        /\ j = 0
        /\ z = FZero
        /\ z1 = FZero
        /\ p1 = FZero
        /\ p2 = FZero
        /\ pp = FZero
        /\ iter = 0
        /\ x = << >>
        /\ w = << >>
        /\ tt = 0
        /\ bracket = << >>

\* A scalar function runs from call to return in one step.
Call_weight_mw == \E p \in Ps :
    /\ pc = "idle"
    /\ pc' = "returned"
    /\ fn' = "weight_mw"
    /\ args' = <<p>>
    /\ out' \in ssht_sampling_weight_mw(p)
    /\ prev' = NoCall
    /\ UNCHANGED gl

Call_weight_dh == \E q \in Quarters, L \in Ls :
    /\ pc = "idle"
    /\ pc' = "returned"
    /\ fn' = "weight_dh"
    /\ args' = <<q, L>>
    /\ out' \in ssht_sampling_weight_dh(q, L)
    /\ prev' = NoCall
    /\ UNCHANGED gl

Call_mw_t2theta == \E t \in Ts, L \in Ls :
    /\ pc = "idle"
    /\ pc' = "returned"
    /\ fn' = "mw_t2theta"
    /\ args' = <<t, L>>
    /\ out' \in ssht_sampling_mw_t2theta(t, L)
    /\ prev' = NoCall
    /\ UNCHANGED gl

Call_mw_p2phi == \E p \in Ts, L \in Ls :
    /\ pc = "idle"
    /\ pc' = "returned"
    /\ fn' = "mw_p2phi"
    /\ args' = <<p, L>>
    /\ out' \in ssht_sampling_mw_p2phi(p, L)
    /\ prev' = NoCall
    /\ UNCHANGED gl

Call_elm2ind == \E el \in Els, m \in Ms :
    /\ pc = "idle"
    /\ pc' = "returned"
    /\ fn' = "elm2ind"
    /\ args' = <<el, m>>
    /\ out' \in ssht_sampling_elm2ind(el, m)
    /\ prev' = NoCall
    /\ UNCHANGED gl

Call_ind2elm == \E ind \in Inds :
    /\ pc = "idle"
    /\ pc' = "returned"
    /\ fn' = "ind2elm"
    /\ args' = <<ind>>
    /\ out' \in ssht_sampling_ind2elm(ind)
    /\ prev' = NoCall
    /\ UNCHANGED gl

\* The caller passes what the last call stored to the inverse relation.
Then_ind2elm ==
    /\ pc = "returned"
    /\ fn = "elm2ind"
    /\ out.kind = "ret"
    /\ prev = NoCall
    /\ prev' = [fn |-> fn, args |-> args, out |-> out]
    /\ pc' = "returned"
    /\ fn' = "ind2elm"
    /\ args' = out.val
    /\ out' \in ssht_sampling_ind2elm(out.val[1])
    /\ UNCHANGED gl

Then_elm2ind ==
    /\ pc = "returned"
    /\ fn = "ind2elm"
    /\ out.kind = "ret"
    /\ prev = NoCall
    /\ prev' = [fn |-> fn, args |-> args, out |-> out]
    /\ pc' = "returned"
    /\ fn' = "elm2ind"
    /\ args' = out.val
    /\ out' \in ssht_sampling_elm2ind(out.val[1], out.val[2])
    /\ UNCHANGED gl

\* ------------------------------------------------------------------ gauleg

\* The double constants of gauleg: 1.0, 2.0, 0.5 and .25, EPS = 1e-14 and the
\* literal 3.141592654, each the double nearest the decimal written.
One == FInt(1)

Two == FInt(2)

Half == FDiv(FInt(1), FInt(2))

Quarter == FDiv(FInt(1), FInt(4))

EPS == FDiv(FInt(1), FMul(FInt(10000000), FInt(10000000)))

PiLit == FDiv(FInt(1570796327), FInt(500000000))

\* The double nearest k / 10, an end of the interval written in tenths.
FTenths(k) == FDiv(FInt(k), FInt(10))

\* m = n / 2 in place of (n + 1) / 2.
HalfDown(n) == IF n >= 0 THEN n \div 2 ELSE -((-n) \div 2)

\* m = (n + 1) / 2, the int division of C.
HalfUp(n) == IF n + 1 >= 0 THEN (n + 1) \div 2 ELSE -((-(n + 1)) \div 2)

\* xl without the factor 0.5.
Xl_Whole(a, b) == FSub(b, a)

\* xm and xl, the middle and the half length of the interval.
Xm(a, b) == FMul(Half, FAdd(b, a))

Xl(a, b) == FMul(Half, FSub(b, a))

\* The first guess of root i of n.
Guess(ii, n) ==
    FCos(FDiv(FMul(PiLit, FSub(FInt(ii), Quarter)), FAdd(FInt(n), Half)))

\* The ends of the intervals, in tenths.
Intervals == {<<-10, 10>>, <<0, 10>>, <<20, 50>>, <<1, 3>>}

Ns == -1 .. MaxN

\* The calls of gauleg: every interval with every small n, and the interval
\* [-1, 1] with BigN points.
GaulegCalls == {<<iv[1], iv[2], n>> : iv \in Intervals, n \in Ns}
                   \cup {<<-10, 10, BigN>>}

\* Entry of gauleg up to the first pass of the do-while loop of root 1, or
\* to the end when there is no root to find.
Call_gauleg == \E c \in GaulegCalls :
    /\ pc = "idle"
    /\ IF 1 <= HalfUp(c[3])
       THEN pc' = "gl_legendre" /\ z' = Guess(1, c[3])
       ELSE pc' = "gl_done" /\ z' = FZero
    /\ fn' = "gauleg"
    /\ args' = c
    /\ out' = NoOut
    /\ prev' = NoCall
    /\ i' = 1
    /\ j' = 1
    /\ p1' = One
    /\ p2' = FZero
    /\ z1' = FZero
    /\ pp' = FZero
    /\ iter' = 0
    /\ x' = << >>
    /\ w' = << >>
    /\ tt' = 0
    /\ bracket' = << >>

\* ssht_sampling_gl_thetas_weights(thetas, weights, L) calls
\* gauleg(-1.0, 1.0, thetas, weights, L).
Call_gl_thetas_weights == \E L \in ThetaLs :
    /\ pc = "idle"
    /\ IF 1 <= HalfUp(L)
       THEN pc' = "gl_legendre" /\ z' = Guess(1, L)
       ELSE pc' = "gl_done" /\ z' = FZero
    /\ fn' = "gl_thetas_weights"
    /\ args' = <<-10, 10, L>>
    /\ out' = NoOut
    /\ prev' = NoCall
    /\ i' = 1
    /\ j' = 1
    /\ p1' = One
    /\ p2' = FZero
    /\ z1' = FZero
    /\ pp' = FZero
    /\ iter' = 0
    /\ x' = << >>
    /\ w' = << >>
    /\ tt' = 0
    /\ bracket' = << >>

\* One pass of the loop over j: p3 = p2; p2 = p1;
\* p1 = ((2.0*j-1.0)*z*p2 - (j-1.0)*p3) / j.
GaulegLegendre ==
    /\ pc = "gl_legendre"
    /\ j <= args[3]
    /\ p2' = p1
    /\ p1' = FDiv(FSub(FMul(FMul(FSub(FMul(Two, FInt(j)), One), z), p1),
                       FMul(FSub(FInt(j), One), p2)),
                  FInt(j))
    /\ j' = j + 1
    /\ UNCHANGED <<pc, fn, args, out, prev, i, z, z1, pp, iter, x, w, tt, bracket>>

\* The Newton step that ends a pass of the do-while loop, and the test of
\* the loop.
GaulegNewton ==
    /\ pc = "gl_legendre"
    /\ j > args[3]
    /\ pp' = FDiv(FMul(FInt(args[3]), FSub(FMul(z, p1), p2)),
                  FSub(FMul(z, z), One))
    /\ z1' = z
    /\ z' = FSub(z1', FDiv(p1, pp'))
    /\ pc' = IF FGreater(FAbs(FSub(z', z1')), EPS) THEN "gl_legendre"
             ELSE "gl_store"
    /\ iter' = iter + 1
    /\ j' = 1
    /\ p1' = One
    /\ p2' = FZero
    /\ UNCHANGED <<fn, args, out, prev, i, x, w, tt, bracket>>

\* The four stores of root i, and the step and test of the loop over the
\* roots.
GaulegStore ==
    /\ pc = "gl_store"
    /\ LET n  == args[3]
           xm == Xm(FTenths(args[1]), FTenths(args[2]))
           xl == Xl(FTenths(args[1]), FTenths(args[2]))
           wi == FDiv(FMul(Two, xl), FMul(FMul(FSub(One, FMul(z, z)), pp), pp))
           xa == [k \in DOMAIN x \cup {i - 1} |->
                      IF k = i - 1 THEN FSub(xm, FMul(xl, z)) ELSE x[k]]
           wa == [k \in DOMAIN w \cup {i - 1} |->
                      IF k = i - 1 THEN wi ELSE w[k]]
       IN  /\ x' = [k \in DOMAIN xa \cup {n + 1 - i - 1} |->
                      IF k = n + 1 - i - 1 THEN FAdd(xm, FMul(xl, z)) ELSE xa[k]]
           /\ w' = [k \in DOMAIN wa \cup {n + 1 - i - 1} |->
                      IF k = n + 1 - i - 1 THEN wa[i - 1] ELSE wa[k]]
           /\ i' = i + 1
           /\ iter' = 0
           /\ IF i + 1 <= HalfUp(n)
              THEN pc' = "gl_legendre" /\ z' = Guess(i + 1, n)
              ELSE pc' = "gl_done" /\ z' = z
    /\ UNCHANGED <<fn, args, out, prev, j, z1, p1, p2, pp, tt, bracket>>

\* gauleg returns to its caller.
GaulegReturn ==
    /\ pc = "gl_done"
    /\ fn = "gauleg"
    /\ pc' = "returned"
    /\ out' = Ret(<< >>)
    /\ UNCHANGED <<fn, args, prev, gl>>

\* The test of the loop of ssht_sampling_gl_thetas_weights over
\* t = 0 .. L - 1 (tt here): the call of acos(thetas[t]), or the return.
GlThetasLoop ==
    /\ pc = "gl_done"
    /\ fn = "gl_thetas_weights"
    /\ IF tt <= args[3] - 1
       THEN pc' = "gl_acos" /\ bracket' = ACosFirst /\ out' = out
       ELSE pc' = "returned" /\ bracket' = bracket /\ out' = Ret(<< >>)
    /\ UNCHANGED <<fn, args, prev, i, j, z, z1, p1, p2, pp, iter, x, w, tt>>

\* One step of acos(thetas[t]).
ACosBisect ==
    /\ pc = "gl_acos"
    /\ ~ ACosDone(bracket)
    /\ bracket' = ACosStep(x[tt], bracket)
    /\ UNCHANGED <<pc, fn, args, out, prev, i, j, z, z1, p1, p2, pp, iter, x, w, tt>>

\* thetas[t] = acos(thetas[t]), and the step of the loop.
GlThetasStore ==
    /\ pc = "gl_acos"
    /\ ACosDone(bracket)
    /\ x' = [x EXCEPT ![tt] = ACosRound(bracket)]
    /\ tt' = tt + 1
    /\ pc' = "gl_done"
    /\ UNCHANGED <<fn, args, out, prev, i, j, z, z1, p1, p2, pp, iter, w, bracket>>

\* The caller takes the result; the next call starts from the idle state.
Return == /\ pc = "returned"
          /\ pc' = "idle"
          /\ fn' = "none"
          /\ args' = << >>
          /\ out' = NoOut
          /\ prev' = NoCall
          /\ i' = 0
          /\ j' = 0
          /\ z' = FZero
          /\ z1' = FZero
          /\ p1' = FZero
          /\ p2' = FZero
          /\ pp' = FZero
          /\ iter' = 0
          /\ x' = << >>
          /\ w' = << >>
          /\ tt' = 0
          /\ bracket' = << >>

Next == \/ Call_weight_mw
        \/ Call_weight_dh
        \/ Call_mw_t2theta
        \/ Call_mw_p2phi
        \/ Call_elm2ind
        \/ Call_ind2elm
        \/ Then_ind2elm
        \/ Then_elm2ind
        \/ Call_gauleg
        \/ Call_gl_thetas_weights
        \/ GaulegLegendre
        \/ GaulegNewton
        \/ GaulegStore
        \/ GaulegReturn
        \/ GlThetasLoop
        \/ ACosBisect
        \/ GlThetasStore
        \/ Return

Spec == Init /\ [][Next]_vars


\* ------------------------------------------------ the harmonic index relations

\* (el, m) is a degree and order of some band-limit L >= 1.
ValidElm(a) == a[1] >= 0 /\ -a[1] <= a[2] /\ a[2] <= a[1]

\* C1: for every L >= 1, el in [0, L-1] and m in [-el, el],
\* ssht_sampling_elm2ind(el, m) followed by ssht_sampling_ind2elm on the index
\* it stored returns exactly (el, m).
C1_ElmRoundTrip ==
    /\ (pc = "returned" /\ fn = "elm2ind" /\ prev = NoCall /\ ValidElm(args))
          => out.kind = "ret"
    /\ (pc = "returned" /\ fn = "ind2elm" /\ prev.fn = "elm2ind"
          /\ ValidElm(prev.args))
          => out = Ret(prev.args)

\* C2: for every L >= 1 and every ind in [0, L*L-1], ssht_sampling_ind2elm(ind)
\* followed by ssht_sampling_elm2ind on the (el, m) it stored returns exactly
\* ind.
C2_IndRoundTrip ==
    /\ (pc = "returned" /\ fn = "ind2elm" /\ prev = NoCall /\ args[1] >= 0)
          => out.kind = "ret"
    /\ (pc = "returned" /\ fn = "elm2ind" /\ prev.fn = "ind2elm"
          /\ prev.args[1] >= 0)
          => out = Ret(prev.args)

\* The round trip of the largest int and of the index just below the largest
\* square have been made.
C2_Witness ==
    /\ pc = "returned" /\ fn = "elm2ind" /\ prev.fn = "ind2elm"
    /\ prev.args[1] \in {IntMax, SqrtIntMax * SqrtIntMax - 1, MaxL * MaxL - 1}
    /\ out = Ret(prev.args)

\* C10: for every L >= 1 and ind in [0, L*L-1], squares k*k and k*k - 1
\* included, ssht_sampling_ind2elm stores el with el*el <= ind < (el+1)*(el+1),
\* 0 <= el <= L-1, and m = ind - el*el - el with -el <= m <= el.
C10_FloorSqrt ==
    (pc = "returned" /\ fn = "ind2elm" /\ args[1] >= 0) =>
        /\ out.kind = "ret"
        /\ LET ind == args[1]
               el  == out.val[1]
               m   == out.val[2]
           IN  /\ el >= 0
               /\ el = 0 \/ el <= ind \div el
               /\ ind \div (el + 1) < el + 1
               /\ m = (ind - el * el) - el
               /\ -el <= m /\ m <= el
               /\ \A L \in 1 .. MaxL + 1 : ind <= L * L - 1 => el <= L - 1
               /\ ind <= SqrtIntMax * SqrtIntMax - 1 => el <= SqrtIntMax - 1

\* ind2elm has returned for an index one below a square, for a square and
\* for the largest int.
C10_Witness ==
    /\ pc = "returned" /\ fn = "ind2elm" /\ out.kind = "ret"
    /\ \/ args[1] = SqrtIntMax * SqrtIntMax - 1 /\ out.val = <<SqrtIntMax - 1, SqrtIntMax - 1>>
       \/ args[1] = SqrtIntMax * SqrtIntMax /\ out.val = <<SqrtIntMax, -SqrtIntMax>>
       \/ args[1] = IntMax /\ out.val[1] = SqrtIntMax

\* ------------------------------------------------------------ the MW weight

\* s = p * p, without forming the product.
IsSquareOf(s, p) == IF p = 0 THEN s = 0
                    ELSE s > 0 /\ s % Abs(p) = 0 /\ s \div Abs(p) = Abs(p)

\* C3: for every integer p, ssht_sampling_weight_mw(p) is i*pi/2 for p = 1,
\* -i*pi/2 for p = -1, the real 2/(1 - p*p) for even p and 0 for the other
\* odd p.
C3_WeightMw ==
    (pc = "returned" /\ fn = "weight_mw") =>
        /\ out.kind = "ret"
        /\ LET p == args[1]
               v == out.val
           IN  IF p = 1 THEN v = <<0, 1, 1>>
               ELSE IF p = -1 THEN v = <<0, 1, -1>>
               ELSE IF p % 2 = 0
                    THEN v[1] = 2 /\ v[3] = 0 /\ IsSquareOf(1 - v[2], p)
                    ELSE v = <<0, 1, 0>>

\* ------------------------------------------------------- the MW angle mappings

InGauleg == pc \in {"gl_legendre", "gl_store", "gl_done", "gl_acos"}

\* C4: for every n >= 1, gauleg writes only indices 0 .. n-1 of x and w, and
\* when it returns it has written every one of them, for even and odd n.
C4_Writes ==
    /\ (InGauleg \/ (pc = "returned" /\ fn \in {"gauleg", "gl_thetas_weights"}))
          => /\ DOMAIN x \subseteq 0 .. args[3] - 1
             /\ DOMAIN w \subseteq 0 .. args[3] - 1
    /\ ((pc \in {"gl_done", "gl_acos"}
            \/ (pc = "returned" /\ fn \in {"gauleg", "gl_thetas_weights"}))
          /\ args[3] >= 1)
          => /\ DOMAIN x = 0 .. args[3] - 1
             /\ DOMAIN w = 0 .. args[3] - 1

\* gauleg has returned for the largest small n and for its neighbour of the
\* other parity, with all slots written.
C4_Witness ==
    /\ pc = "returned" /\ fn = "gauleg"
    /\ args[3] \in {MaxN - 1, MaxN}
    /\ DOMAIN x = 0 .. args[3] - 1

\* A call gauleg(x1, x2, x, w, 1) that has not returned to idle.
OnePoint == fn = "gauleg" /\ args[3] = 1

\* The steps a call for n = 1 has left at most when its do-while loop makes
\* no more than two passes.
StepsLeft ==
    IF pc = "gl_legendre" THEN (2 - iter) * (args[3] + 1) - (j - 1) + 2
    ELSE IF pc = "gl_store" THEN 2
    ELSE IF pc = "gl_done" THEN 1
    ELSE 0

\* C9: for n = 1 and every interval x1 < x2, gauleg terminates (every step
\* of the call lowers StepsLeft, which stays >= 0) and leaves
\* x[0] = (x1 + x2) / 2 and w[0] = x2 - x1.
C9_OnePoint ==
    /\ [](OnePoint =>
            /\ StepsLeft >= 0
            /\ (pc \in {"gl_done", "returned"})
                  => /\ DOMAIN x = {0} /\ DOMAIN w = {0}
                     /\ x[0] = FDiv(FAdd(FTenths(args[1]), FTenths(args[2])), Two)
                     /\ w[0] = FSub(FTenths(args[2]), FTenths(args[1])))
    /\ [][(OnePoint /\ OnePoint') => StepsLeft' < StepsLeft]_vars

\* gauleg has returned the one node of [0.1, 0.3], whose length 0.3 - 0.1 is
\* not the double nearest 0.2.
C9_Witness ==
    /\ pc = "returned" /\ fn = "gauleg" /\ args = <<1, 3, 1>>
    /\ x[0] = FTenths(2) /\ w[0] # FTenths(2)

\* C8: for every n >= 1, what gauleg(-1, 1, x, w, n) returns is mirrored:
\* x[k] = -x[n-1-k] and w[k] = w[n-1-k] for every k of 0 .. n-1.
C8_Mirror ==
    (pc = "returned" /\ fn = "gauleg" /\ args[1] = -10 /\ args[2] = 10
        /\ args[3] >= 1)
        => \A k \in 0 .. args[3] - 1 :
               /\ x[k] = FNeg(x[args[3] - 1 - k])
               /\ w[k] = w[args[3] - 1 - k]


\* ------------------------------------------------------------ preconditions

\* The call that has returned was made outside the domain of its function,
\* and the error kind the specification names for it.
BadBandlimit ==
    \/ fn \in {"weight_dh", "mw_t2theta", "mw_p2phi"} /\ args[2] <= 0
    \/ fn = "gl_thetas_weights" /\ args[3] <= 0

BadIndex ==
    \/ fn = "elm2ind" /\ prev = NoCall /\ ~ ValidElm(args)
    \/ fn = "ind2elm" /\ prev = NoCall /\ args[1] < 0

BadSampleIndex ==
    /\ fn \in {"mw_t2theta", "mw_p2phi"}
    /\ args[2] >= 1
    /\ (args[1] < 0 \/ args[1] > 2 * args[2] - 2)

====
